---- MODULE Spec2Model ----
(***************************************************************************)
(* Navigation engine of the UI (ui/src/view.ts): a Navigation facade over  *)
(* a history stack of View entries whose top is exposed through a          *)
(* readable store.  The facade (create / back / set / current) is taken    *)
(* from view.ts; the history stack and its store (ui/src/history.ts, not   *)
(* part of the available sources) follow the design document, sections     *)
(* 4.1 and 4.2.                                                            *)
(***************************************************************************)
EXTENDS Naturals, Sequences, FiniteSets

\* ------------------------------------------------------------------ bounds
\* Number of facade calls (set, back, subscribe, unsubscribe) in a run.
MaxOps == 5
\* Number of subscribe calls in a run.
MaxSubs == 2
\* Number of logged calls in a run with calls made from inside a callback.
MaxReentrantOps == 5
\* Number of calls, on either instance, in a run with two Navigation instances.
MaxTwoOps == 4
\* Number of set calls in a run whose callers are not type-checked.
MaxUntypedOps == 3
\* Number of logged calls in a run that mixes calls from outside with calls
\* made from inside a callback.
MaxMixedOps == 5

\* ------------------------------------------------------------- data model
\* The closed key set K of the navigation (view.ts:23, type parameter K).
Keys == {"A", "B"}

\* The component map handed to create: total over Keys (view.ts:13-15, 24).
componentMap == [k \in Keys |-> IF k = "A" THEN "CompA" ELSE "CompB"]

\* JavaScript's undefined: an omitted props argument, a missing field, the
\* last element of an empty array.
Undefined == [undefined |-> TRUE]

\* Property values: a string or the literal 0 (view.ts:12).
Str(s) == [str |-> s]
Zero == [num |-> 0]

\* The props arguments the callers pass to set: none, or a property bag.
PropsArgs == {Undefined, [x |-> Str("y")], [n |-> Zero]}

\* What a plain object inherits from Object.prototype: the property names
\* and, for each, a name standing for the inherited function or object.
ObjectPrototype ==
    [n \in {"constructor", "toString", "toLocaleString", "valueOf",
            "hasOwnProperty", "isPrototypeOf", "propertyIsEnumerable",
            "__defineGetter__", "__defineSetter__",
            "__lookupGetter__", "__lookupSetter__",
            "__proto__"} |->
        IF n = "constructor" THEN "Object"
        ELSE IF n = "__proto__" THEN "Object.prototype"
        ELSE "Object.prototype." \o n]

\* map[key] as JavaScript reads it on a plain object: the map's own entry,
\* else the property of that name inherited from Object.prototype, else
\* undefined.
Get(map, key) ==
    IF key \in DOMAIN map THEN map[key]
    ELSE IF key \in DOMAIN ObjectPrototype THEN ObjectPrototype[key]
    ELSE Undefined

\* The keys a caller that is not type-checked can pass: those of K, one
\* that is nowhere on the component map, and four that the map does not
\* have but inherits.
AnyKeys == Keys \cup {"Z", "toString", "constructor", "__defineGetter__", "__proto__"}

\* v.props as JavaScript reads it: undefined when the field is missing.
PropsOf(v) == IF "props" \in DOMAIN v THEN v.props ELSE Undefined

VARIABLES
    initial,      \* the key create was called with
    policy,       \* the root-pop policy the history stack documents
    stack,        \* the history stack's sequence of views, bottom first
    current,      \* the value held by the store behind hist.current
    subscribers,  \* the active subscriptions of the store, in registration order
    nextSub,      \* the identity of the next subscription
    cancelled,    \* subscriptions whose unsubscribe handle has been called
    notified,     \* callback invocations <<subscription, value>> made by the last call
    raised,       \* the last call signalled "cannot navigate back from root"
    lastSeen,     \* per subscription, the value its callback was last invoked with
    other,        \* the history of a Navigation made by a second create call
    opLog,        \* the facade calls made so far
    stackLog,     \* the stack after create and after each call
    curLog        \* the value of current after create and after each call

subs == <<subscribers, nextSub, cancelled>>
vars == <<initial, policy, stack, current, subscribers, nextSub, cancelled,
          notified, raised, lastSeen, other, opLog, stackLog, curLog>>

\* ---------------------------------------------------------- history stack
\* The top of a sequence; undefined for the empty one.
Top(s) == IF s = <<>> THEN Undefined ELSE s[Len(s)]

\* The sequence without its last element.
Front(s) == SubSeq(s, 1, Len(s) - 1)

\* The callback invocations of one notification round: every registered
\* subscription, in registration order, with the new value.
Notify(ss, v) == [i \in 1..Len(ss) |-> <<ss[i], v>>]

\* store.set(v): replace the stored value and notify synchronously.
StoreSet(v) ==
    /\ current' = v
    /\ notified' = Notify(subscribers, v)

\* hist.push(item): append the item and publish it as the new top.
HistPush(item) ==
    /\ stack' = Append(stack, item)
    /\ StoreSet(item)
    /\ raised' = FALSE

\* hist.pop(): remove the top when more than the root is left and publish
\* the new top; at the root the stack is kept, either silently or with the
\* back-at-root signal, as the policy says.
HistPop ==
    IF Len(stack) > 1
    THEN /\ stack' = Front(stack)
         /\ StoreSet(Top(Front(stack)))
         /\ raised' = FALSE
    ELSE /\ UNCHANGED <<stack, current>>
         /\ notified' = <<>>
         /\ raised' = (policy = "signal")

\* ------------------------------------------------------ navigation facade
\* Variant of InitialView: the component is looked up under a fixed key.
InitialView_fixedKey(k) == [component |-> componentMap["A"], key |-> k]

\* The view create seeds the history with: no props field.
InitialView(k) == [component |-> Get(componentMap, k), key |-> k]

\* Variant of NewView: the props argument is not stored.
NewView_dropProps(key, props) ==
    [component |-> componentMap[key], key |-> key, props |-> Undefined]

\* Variant of NewView: the component is looked up under the initial key.
NewView_initialComponent(key, props) ==
    [component |-> componentMap[initial], key |-> key, props |-> props]

\* The view set pushes.
NewView(key, props) ==
    [component |-> Get(componentMap, key), key |-> key, props |-> props]

\* Variant of NavCurrent: a store of its own that keeps the initial view.
NavCurrent_initial == InitialView(initial)

\* Navigation.current forwards the history's current store.
NavCurrent == current

\* create(componentMap, initial): the state after construction.
create(k) ==
    /\ initial = k
    /\ stack = <<InitialView(k)>>
    /\ current = InitialView(k)
    /\ subscribers = <<>>
    /\ nextSub = 1
    /\ cancelled = {}
    /\ notified = <<>>
    /\ raised = FALSE

\* Variant of back: removes the top without looking at the length.
back_underflow ==
    /\ stack' = Front(stack)
    /\ StoreSet(Top(Front(stack)))
    /\ raised' = FALSE

\* Variant of back: shortens the stack without publishing the new top.
back_noPublish ==
    /\ stack' = IF Len(stack) > 1 THEN Front(stack) ELSE stack
    /\ notified' = <<>>
    /\ raised' = FALSE
    /\ UNCHANGED current

\* Variant of back: removes the oldest entry instead of the newest.
back_shift ==
    IF Len(stack) > 1
    THEN /\ stack' = Tail(stack)
         /\ StoreSet(Top(Tail(stack)))
         /\ raised' = FALSE
    ELSE /\ UNCHANGED <<stack, current>>
         /\ notified' = <<>>
         /\ raised' = FALSE

\* Navigation.back().
back == HistPop

\* Variant of set: appends to the sequence without going through the store.
set_noPublish(key, props) ==
    /\ stack' = Append(stack, NewView(key, props))
    /\ notified' = <<>>
    /\ raised' = FALSE
    /\ UNCHANGED current

\* Variant of set: puts the view under the stack instead of on top.
set_unshift(key, props) ==
    /\ stack' = <<NewView(key, props)>> \o stack
    /\ StoreSet(Top(stack))
    /\ raised' = FALSE

\* Variant of set: a view with the key of the current one replaces it.
set_dedup(key, props) ==
    /\ stack' = IF key = current.key
                THEN Append(Front(stack), NewView(key, props))
                ELSE Append(stack, NewView(key, props))
    /\ StoreSet(NewView(key, props))
    /\ raised' = FALSE

\* Navigation.set(key, props).
set(key, props) == HistPush(NewView(key, props))

\* current.subscribe(callback): register and replay the present value.
subscribe ==
    /\ subscribers' = Append(subscribers, nextSub)
    /\ nextSub' = nextSub + 1
    /\ notified' = <<<<nextSub, NavCurrent>>>>
    /\ raised' = FALSE
    /\ UNCHANGED <<stack, current, cancelled>>

\* Variant of unsubscribe: the handle leaves the subscription registered.
unsubscribe_keep(id) ==
    /\ cancelled' = cancelled \cup {id}
    /\ notified' = <<>>
    /\ raised' = FALSE
    /\ UNCHANGED <<stack, current, nextSub, subscribers>>

\* The handle returned by subscription id: deregister; a no-op when the
\* subscription is already gone.
unsubscribe(id) ==
    /\ subscribers' = SelectSeq(subscribers, LAMBDA s : s # id)
    /\ cancelled' = cancelled \cup {id}
    /\ notified' = <<>>
    /\ raised' = FALSE
    /\ UNCHANGED <<stack, current, nextSub>>

\* ------------------------------------------------------------ the machine
Op(name, key, props, id) == [op |-> name, key |-> key, props |-> props, id |-> id]

\* What the callbacks hold after the invocations ns, made in that order: the
\* value of the latest invocation of each subscription.
RECURSIVE Deliver(_, _)
Deliver(seen, ns) ==
    IF ns = <<>> THEN seen
    ELSE LET id == Head(ns)[1]
             v == Head(ns)[2]
         IN Deliver(IF id <= Len(seen) THEN [seen EXCEPT ![id] = v]
                                       ELSE Append(seen, v),
                    Tail(ns))

Log(e) ==
    /\ opLog' = Append(opLog, e)
    /\ stackLog' = Append(stackLog, stack')
    /\ curLog' = Append(curLog, NavCurrent')
    /\ lastSeen' = Deliver(lastSeen, notified')

\* The second Navigation before its create call.
NotCreated ==
    [created |-> FALSE, stack |-> <<>>, current |-> Undefined,
     subscribers |-> <<>>, nextSub |-> 1, notified |-> <<>>, seen |-> <<>>, calls |-> 0]

Init ==
    /\ \E k \in Keys : create(k)
    /\ policy \in {"noop", "signal"}
    /\ opLog = <<>>
    /\ stackLog = <<stack>>
    /\ curLog = <<NavCurrent>>
    /\ lastSeen = <<>>
    /\ other = NotCreated

Set ==
    /\ Len(opLog) < MaxOps
    /\ UNCHANGED <<other, initial, policy, subs>>
    /\ \E k \in Keys, p \in PropsArgs :
          /\ set(k, p)
          /\ Log(Op("set", k, p, 0))

Back ==
    /\ Len(opLog) < MaxOps
    /\ UNCHANGED <<other, initial, policy, subs>>
    /\ back
    /\ Log(Op("back", "", Undefined, 0))

Subscribe ==
    /\ Len(opLog) < MaxOps
    /\ UNCHANGED <<other, initial, policy>>
    /\ nextSub <= MaxSubs
    /\ subscribe
    /\ Log(Op("subscribe", "", Undefined, nextSub))

Unsubscribe ==
    /\ Len(opLog) < MaxOps
    /\ UNCHANGED <<other, initial, policy>>
    /\ \E id \in 1..(nextSub - 1) :
          /\ unsubscribe(id)
          /\ Log(Op("unsubscribe", "", Undefined, id))

Next == Set \/ Back \/ Subscribe \/ Unsubscribe

Spec == Init /\ [][Next]_vars

\* ------------------------------------------- calls made from inside a callback
\* hist.push and hist.pop as functions of the history's state h =
\* [stack, current]: the state they leave, and whether they start a
\* notification round.
Pushed(h, item) == [stack |-> Append(h.stack, item), current |-> item, round |-> TRUE]

Popped(h) ==
    IF Len(h.stack) > 1
    THEN [stack |-> Front(h.stack), current |-> Top(Front(h.stack)), round |-> TRUE]
    ELSE [stack |-> h.stack, current |-> h.current, round |-> FALSE]

\* Variant of call: set appends to the sequence without going through the
\* store.
call_noPublish(h, c) ==
    IF c.op = "set"
    THEN [stack |-> Append(h.stack, NewView(c.key, c.props)),
          current |-> h.current, round |-> FALSE]
    ELSE Popped(h)

\* A facade call c (set or back) as a function of the history's state.
call(h, c) ==
    IF c.op = "set" THEN Pushed(h, NewView(c.key, c.props)) ELSE Popped(h)

\* The calls a caller or a callback can make.
Calls == {Op("set", k, p, 0) : k \in Keys, p \in PropsArgs} \cup {Op("back", "", Undefined, 0)}

\* How the store runs a round started while another one is running: inside
\* the running one, right after the callback that started it, or queued
\* behind it.  Either way within the outermost call.
Dispatch == {"nested", "queued"}

\* The invocations of an outer round ro during which the callback at
\* position p started the inner round ri.
Rounds(d, ro, p, ri) ==
    IF d = "nested"
    THEN SubSeq(ro, 1, p) \o ri \o SubSeq(ro, p + 1, Len(ro))
    ELSE ro \o ri

\* A set or back call during whose notification round the callback of one
\* registered subscription calls set or back itself, once.  A back-at-root
\* signal of the inner call goes to the callback that made it; a callback
\* that does not catch it lets it through the store's round, which ends
\* there, and out of the outer call.
ReenterWithin(max) ==
    /\ Len(opLog) + 2 <= max
    /\ UNCHANGED <<other, initial, policy, subs>>
    /\ \E outer \in Calls, p \in 1..Len(subscribers), inner \in Calls,
          d \in Dispatch, catches \in BOOLEAN :
          LET a == call([stack |-> stack, current |-> current], outer)
              b == call([stack |-> a.stack, current |-> a.current], inner)
              ro == Notify(subscribers, a.current)
              ri == IF b.round THEN Notify(subscribers, b.current) ELSE <<>>
              signalled == inner.op = "back" /\ ~b.round /\ policy = "signal"
          IN /\ a.round
             /\ stack' = b.stack
             /\ current' = b.current
             /\ notified' = IF signalled /\ ~catches
                             THEN SubSeq(ro, 1, p)
                             ELSE Rounds(d, ro, p, ri)
             /\ raised' = signalled
             /\ opLog' = opLog \o << outer, [inner EXCEPT !.id = subscribers[p]] >>
             /\ stackLog' = stackLog \o << a.stack, b.stack >>
             /\ curLog' = curLog \o << a.current, b.current >>
             /\ lastSeen' = Deliver(lastSeen, notified')

Reenter == ReenterWithin(MaxReentrantOps)

ReSet == Len(opLog) < MaxReentrantOps /\ Set

ReSubscribe == Len(opLog) < MaxReentrantOps /\ Subscribe

NextReentrant == ReSet \/ ReSubscribe \/ Reenter

SpecReentrant == Init /\ [][NextReentrant]_vars

\* --------------------------- calls from outside and from inside a callback
\* Every call of the interface, from outside any callback, and set or back
\* calls whose round has a callback calling set or back.
MixedSet == Len(opLog) < MaxMixedOps /\ Set

MixedBack == Len(opLog) < MaxMixedOps /\ Back

MixedSubscribe == Len(opLog) < MaxMixedOps /\ Subscribe

MixedUnsubscribe == Len(opLog) < MaxMixedOps /\ Unsubscribe

MixedReenter == ReenterWithin(MaxMixedOps)

NextMixed == MixedSet \/ MixedBack \/ MixedSubscribe \/ MixedUnsubscribe \/ MixedReenter

SpecMixed == Init /\ [][NextMixed]_vars

\* ------------------------------------------------ two Navigation instances
\* Variant of HistOf: one history, made once, serves every Navigation.
HistOf_shared(n) == 1

\* The history the n-th create call gives its Navigation: create builds a
\* new one in its own body, so each call has its own.
HistOf(n) == n

\* Calls on either instance made so far.
TwoOps == Len(opLog) + other.calls

\* The second create call, with the same component map.
CreateOther ==
    /\ ~other.created
    /\ \E k \in Keys :
          other' = [NotCreated EXCEPT !.created = TRUE,
                                      !.stack = <<InitialView(k)>>,
                                      !.current = InitialView(k)]
    /\ UNCHANGED <<initial, policy, stack, current, subs, notified, raised,
                   lastSeen, opLog, stackLog, curLog>>

\* set or back on the second instance: on its own history, or on the first
\* one's if that is the history it was given.
OtherCall ==
    /\ other.created
    /\ TwoOps < MaxTwoOps
    /\ UNCHANGED <<initial, policy, subs, opLog, stackLog, curLog>>
    /\ \E c \in Calls :
          /\ c.props = Undefined
          /\ IF HistOf(2) = 2
             THEN LET b == call([stack |-> other.stack, current |-> other.current], c)
                      ns == IF b.round THEN Notify(other.subscribers, b.current) ELSE <<>>
                  IN /\ other' = [other EXCEPT !.stack = b.stack,
                                               !.current = b.current,
                                               !.notified = ns,
                                               !.seen = Deliver(@, ns),
                                               !.calls = @ + 1]
                     /\ UNCHANGED <<stack, current, notified, raised, lastSeen>>
             ELSE LET b == call([stack |-> stack, current |-> current], c)
                  IN /\ stack' = b.stack
                     /\ current' = b.current
                     /\ notified' = IF b.round THEN Notify(subscribers, b.current) ELSE <<>>
                     /\ raised' = FALSE
                     /\ lastSeen' = Deliver(lastSeen, notified')
                     /\ other' = [other EXCEPT !.calls = @ + 1]

\* current.subscribe on the second instance.
OtherSubscribe ==
    /\ other.created
    /\ TwoOps < MaxTwoOps
    /\ UNCHANGED <<initial, policy, stack, current, raised, cancelled,
                   opLog, stackLog, curLog>>
    /\ IF HistOf(2) = 2
       THEN /\ other.nextSub <= MaxSubs
            /\ LET ns == << <<other.nextSub, other.current>> >>
               IN other' = [other EXCEPT !.subscribers = Append(@, other.nextSub),
                                         !.nextSub = @ + 1,
                                         !.notified = ns,
                                         !.seen = Deliver(@, ns),
                                         !.calls = @ + 1]
            /\ UNCHANGED <<subscribers, nextSub, notified, lastSeen>>
       ELSE /\ nextSub <= MaxSubs
            /\ subscribers' = Append(subscribers, nextSub)
            /\ nextSub' = nextSub + 1
            /\ notified' = << <<nextSub, current>> >>
            /\ lastSeen' = Deliver(lastSeen, notified')
            /\ other' = [other EXCEPT !.calls = @ + 1]

\* An unsubscribe handle of the second instance.
OtherUnsubscribe ==
    /\ other.created
    /\ TwoOps < MaxTwoOps
    /\ UNCHANGED <<initial, policy, stack, current, raised, nextSub, lastSeen,
                   opLog, stackLog, curLog>>
    /\ IF HistOf(2) = 2
       THEN /\ \E id \in 1..(other.nextSub - 1) :
                  other' = [other EXCEPT
                               !.subscribers = SelectSeq(@, LAMBDA s : s # id),
                               !.notified = <<>>,
                               !.calls = @ + 1]
            /\ UNCHANGED <<subscribers, cancelled, notified>>
       ELSE /\ \E id \in 1..(nextSub - 1) :
                  /\ subscribers' = SelectSeq(subscribers, LAMBDA s : s # id)
                  /\ cancelled' = cancelled \cup {id}
            /\ notified' = <<>>
            /\ other' = [other EXCEPT !.calls = @ + 1]

\* The calls on the first instance, within the run's budget.
TwoSet ==
    /\ TwoOps < MaxTwoOps
    /\ Len(opLog) < MaxOps
    /\ UNCHANGED <<other, initial, policy, subs>>
    /\ \E k \in Keys :
          /\ set(k, Undefined)
          /\ Log(Op("set", k, Undefined, 0))

TwoBack == TwoOps < MaxTwoOps /\ Back

TwoSubscribe == TwoOps < MaxTwoOps /\ Subscribe

TwoUnsubscribe == TwoOps < MaxTwoOps /\ Unsubscribe

NextTwo ==
    \/ CreateOther \/ OtherCall \/ OtherSubscribe \/ OtherUnsubscribe
    \/ TwoSet \/ TwoBack \/ TwoSubscribe \/ TwoUnsubscribe

SpecTwo == Init /\ [][NextTwo]_vars

\* ------------------------------------------- callers that are not type-checked
\* set as it runs when the caller's key is not held to K by the compiler (a
\* plain JavaScript caller, a cast): the types are erased and the body of
\* set is all there is.
SetUntyped ==
    /\ Len(opLog) < MaxUntypedOps
    /\ UNCHANGED <<other, initial, policy, subs>>
    /\ \E k \in AnyKeys, p \in PropsArgs :
          /\ set(k, p)
          /\ Log(Op("set", k, p, 0))

NextUntyped == SetUntyped \/ Back

SpecUntyped == Init /\ [][NextUntyped]_vars

\* ------------------------------------------------------------- properties
NOps == Len(opLog)
LastOp == opLog[NOps]
IsOp(i, name) == opLog[i].op = name
\* The view a logged set call asked for, written out from its arguments.
AskedView(i) == [component |-> componentMap[opLog[i].key],
                 key |-> opLog[i].key,
                 props |-> opLog[i].props]
RootView == [component |-> componentMap[initial], key |-> initial]

\* C1: after any sequence of set and back calls the stack has at least one
\* entry, and current is defined and is the initial view or a view pushed
\* by an earlier set call.
C1_NonEmpty ==
    /\ Len(stack) >= 1
    /\ NavCurrent # Undefined
    /\ \/ NavCurrent = RootView
       \/ \E i \in 1..NOps : IsOp(i, "set") /\ NavCurrent = AskedView(i)

\* C1 witness: a set, later undone by back, and one more back at the root.
C1_Witness ==
    /\ NOps >= 3
    /\ IsOp(NOps - 2, "set") /\ IsOp(NOps - 1, "back") /\ IsOp(NOps, "back")
    /\ Len(stackLog[NOps - 1]) = 2
    /\ Len(stackLog[NOps]) = 1
    /\ Len(stack) = 1

\* C2: as long as no set has been called, any number of back calls leaves
\* the stack exactly [initial view] and current the initial view, after the
\* first back as after every later one.
C2_RootBackIdempotent ==
    (\A i \in 1..NOps : ~IsOp(i, "set")) =>
        \A j \in 1..(NOps + 1) :
            /\ stackLog[j] = <<RootView>>
            /\ curLog[j] = RootView

\* C2 witness: three back calls in a row on the fresh navigation.
C2_Witness ==
    /\ NOps >= 3
    /\ \A i \in 1..NOps : IsOp(i, "back")

\* C3: after create and after every completed call, current holds the top
\* of the stack.
C3_CurrentIsTop ==
    /\ NavCurrent = Top(stack)
    /\ \A j \in 1..(NOps + 1) : curLog[j] = Top(stackLog[j])

\* C3 witness: the top moved up by a set and down again by a back.
C3_Witness ==
    /\ NOps >= 2
    /\ IsOp(NOps - 1, "set") /\ IsOp(NOps, "back")
    /\ Len(stackLog[NOps]) = 2
    /\ Len(stack) = 1

\* C4: n set calls followed by j <= n back calls restore the stack and the
\* current of the moment before the last j of these sets; after fewer than
\* n backs current is the view of the newest set not yet undone.  With
\* n = 2: push(a); push(b); pop() gives a, one more pop() gives x.
C4_LifoRoundTrip ==
    \A i \in 0..NOps : \A n \in 1..NOps : \A j \in 1..n :
        ( /\ i + n + j <= NOps
          /\ \A t \in (i + 1)..(i + n) : IsOp(t, "set")
          /\ \A t \in (i + n + 1)..(i + n + j) : IsOp(t, "back") )
        => /\ stackLog[i + n + j + 1] = stackLog[i + n - j + 1]
           /\ curLog[i + n + j + 1] = curLog[i + n - j + 1]
           /\ j < n => curLog[i + n + j + 1] = AskedView(i + n - j)

\* C4 witness: create(x); set(a); set(b); back(); back() with a # b.
C4_Witness ==
    /\ NOps >= 4
    /\ IsOp(1, "set") /\ IsOp(2, "set") /\ IsOp(3, "back") /\ IsOp(4, "back")
    /\ AskedView(1) # AskedView(2)
    /\ curLog[4] = AskedView(1)
    /\ curLog[5] = RootView

\* C5: right after set(k, p) current has key k and props p; a back that
\* follows at once makes current the view that was current before that set,
\* with that view's own key and props (none if it had none).
C5_SetBackRoundTrip ==
    \A i \in 1..NOps : IsOp(i, "set") =>
        /\ curLog[i + 1].key = opLog[i].key
        /\ PropsOf(curLog[i + 1]) = opLog[i].props
        /\ (i < NOps /\ IsOp(i + 1, "back")) =>
              /\ curLog[i + 2] = curLog[i]
              /\ curLog[i + 2].key = curLog[i].key
              /\ PropsOf(curLog[i + 2]) = PropsOf(curLog[i])

\* C5 witness: create(map, "A"); set("B", {x: "y"}); back().
C5_Witness ==
    /\ NOps >= 2
    /\ initial = "A"
    /\ opLog[1] = Op("set", "B", [x |-> Str("y")], 0)
    /\ IsOp(2, "back")
    /\ curLog[2].key = "B" /\ PropsOf(curLog[2]) = [x |-> Str("y")]
    /\ curLog[3].key = "A" /\ PropsOf(curLog[3]) = Undefined

\* C6: every view on the stack has a key of the key set and the component
\* the component map gives for that key.
C6_ComponentResolution ==
    \A i \in 1..Len(stack) :
        /\ stack[i].key \in Keys
        /\ stack[i].component = componentMap[stack[i].key]

\* C6 witness: views of both keys pushed on top of the initial one.
C6_Witness ==
    /\ Len(stack) >= 3
    /\ \A k \in Keys : \E i \in 2..Len(stack) : stack[i].key = k

\* C7: a subscribe call invokes the new callback exactly once, with the
\* value current holds when subscribe is called, and changes neither the
\* stack nor current.
C7_SubscribeReplay ==
    [][ (opLog' # opLog /\ opLog'[Len(opLog')].op = "subscribe") =>
            /\ notified' = << <<opLog'[Len(opLog')].id, current>> >>
            /\ stack' = stack
            /\ current' = current ]_vars

\* C7 witness: a subscription made after two set calls, replayed the view
\* current then held.
C7_Witness ==
    /\ NOps >= 3
    /\ IsOp(NOps - 2, "set") /\ IsOp(NOps - 1, "set") /\ IsOp(NOps, "subscribe")
    /\ notified = << <<LastOp.id, current>> >>
    /\ current = AskedView(NOps - 1)
    /\ current # RootView

\* C8: a callback whose handle has been called is not invoked by any later
\* call; calling the handle again changes neither the subscriber list nor
\* the stack nor current; every other registered subscription is still
\* notified by set.
C8_UnsubscribeStops ==
    [][ opLog' # opLog =>
            /\ \A i \in 1..Len(notified') : notified'[i][1] \notin cancelled
            /\ ( /\ opLog'[Len(opLog')].op = "unsubscribe"
                 /\ opLog'[Len(opLog')].id \in cancelled )
               => /\ subscribers' = subscribers
                  /\ stack' = stack
                  /\ current' = current
                  /\ notified' = <<>>
            /\ opLog'[Len(opLog')].op = "set"
               => \A s \in 1..(nextSub - 1) :
                     s \notin cancelled =>
                        \E i \in 1..Len(notified') : notified'[i][1] = s ]_vars

\* C8 witness: a handle called twice, then a set that notifies the other
\* subscription only.
C8_Witness ==
    /\ NOps >= 3
    /\ IsOp(NOps - 2, "unsubscribe") /\ IsOp(NOps - 1, "unsubscribe")
    /\ opLog[NOps - 2].id = opLog[NOps - 1].id
    /\ IsOp(NOps, "set")
    /\ Len(notified) = 1
    /\ notified[1][1] \notin cancelled

\* C9: a set call, and a back call made with more than one entry on the
\* stack, invokes exactly the registered subscriptions, once each, in the
\* order they subscribed, with the new top; nothing is left to deliver
\* when the call has returned.
C9_NotifyAllInOrder ==
    ( /\ NOps >= 1
      /\ \/ IsOp(NOps, "set")
         \/ IsOp(NOps, "back") /\ Len(stackLog[NOps]) > 1 )
    => /\ Len(notified) = Len(subscribers)
       /\ \A i \in 1..Len(notified) : notified[i] = <<subscribers[i], Top(stack)>>
       /\ \A i, j \in 1..Len(subscribers) : i < j => subscribers[i] < subscribers[j]
       /\ {subscribers[i] : i \in 1..Len(subscribers)} = (1..(nextSub - 1)) \ cancelled

\* C9 witness: two subscriptions notified, in order, by a back that
\* restores the previous view.
C9_Witness ==
    /\ NOps >= 4
    /\ IsOp(NOps, "back") /\ Len(stackLog[NOps]) > 1
    /\ Len(notified) = 2
    /\ notified[1] = <<1, Top(stack)>>
    /\ notified[2] = <<2, Top(stack)>>

\* C10: create(componentMap, initial) leaves the stack as the one-element
\* sequence [{component: componentMap[initial], key: initial}], without
\* props, and current holding that view.
C10_Create ==
    /\ stackLog[1] = << [component |-> componentMap[initial], key |-> initial] >>
    /\ PropsOf(stackLog[1][1]) = Undefined
    /\ curLog[1] = stackLog[1][1]
    /\ NOps = 0 => (stack = stackLog[1] /\ NavCurrent = curLog[1])

\* C10 witness: the navigation right after create(componentMap, "B").
C10_Witness ==
    /\ NOps = 0
    /\ initial = "B"
    /\ stack = << [component |-> "CompB", key |-> "B"] >>

\* C13: set only appends one entry and back only removes the last one (or
\* nothing at the root); the entries that stay are the same views in the
\* same places, and the bottom entry is always the initial view.
C13_Frame ==
    [][ opLog' # opLog =>
            /\ opLog'[Len(opLog')].op = "set"
               => /\ Len(stack') = Len(stack) + 1
                  /\ SubSeq(stack', 1, Len(stack)) = stack
            /\ opLog'[Len(opLog')].op = "back"
               => /\ Len(stack') >= Len(stack) - 1
                  /\ Len(stack') <= Len(stack)
                  /\ SubSeq(stack, 1, Len(stack')) = stack'
            /\ stack[1] = RootView
            /\ stack'[1] = RootView ]_vars

\* C13 witness: two views pushed and one popped; the root and the first
\* pushed view are still in place.
C13_Witness ==
    /\ NOps >= 3
    /\ IsOp(NOps - 2, "set") /\ IsOp(NOps - 1, "set") /\ IsOp(NOps, "back")
    /\ Len(stack) >= 2
    /\ stack[1] = RootView
    /\ stack = SubSeq(stackLog[NOps], 1, Len(stack))
    /\ stack[Len(stack)] = AskedView(NOps - 2)

\* C14: every set call makes the stack one longer, also when its key is the
\* key of the current view; the length is 1 + the number of set calls - the
\* number of back calls made with more than one entry; a back right after
\* set(key of the current view) returns to the earlier view of that key.
C14_NoDedup ==
    /\ \A i \in 1..NOps :
          IsOp(i, "set") => Len(stackLog[i + 1]) = Len(stackLog[i]) + 1
    /\ Len(stack) = 1 + Cardinality({i \in 1..NOps : IsOp(i, "set")})
                      - Cardinality({i \in 1..NOps :
                                        IsOp(i, "back") /\ Len(stackLog[i]) > 1})
    /\ \A i \in 1..NOps :
          ( /\ IsOp(i, "set")
            /\ opLog[i].key = curLog[i].key
            /\ i < NOps
            /\ IsOp(i + 1, "back") )
          => /\ curLog[i + 2] = curLog[i]
             /\ curLog[i + 2].key = opLog[i].key

\* C14 witness: set(initial key, props) on the fresh navigation, then back.
C14_Witness ==
    /\ NOps >= 2
    /\ IsOp(1, "set") /\ opLog[1].key = initial /\ opLog[1].props # Undefined
    /\ IsOp(2, "back")
    /\ Len(stackLog[2]) = 2
    /\ stackLog[2][1].key = stackLog[2][2].key
    /\ curLog[3] = RootView

InnerCall(j) == opLog[j].op \in {"set", "back"} /\ opLog[j].id > 0

\* Call m started no notification round: a subscribe, an unsubscribe, or a
\* back call made from outside a callback that found only the root.
NoRound(m) ==
    \/ opLog[m].op \in {"subscribe", "unsubscribe"}
    \/ /\ opLog[m].op = "back" /\ opLog[m].id = 0
       /\ stackLog[m + 1] = stackLog[m]

C11_UnknownKeyRejected ==
    /\ \A i \in 1..NOps :
          (IsOp(i, "set") /\ opLog[i].key \notin Keys) =>
              /\ stackLog[i + 1] = stackLog[i]
              /\ curLog[i + 1] = curLog[i]
    /\ \A i \in 1..Len(stack) :
          /\ stack[i].key \in Keys
          /\ stack[i].component = componentMap[stack[i].key]

\* C11 amended: nothing in set looks at the key at run time.  A set call
\* pushes {component: componentMap[key], key, props} with componentMap[key]
\* as JavaScript reads it: the map's entry for a key of the key set; for any
\* other key the property of that name inherited from Object.prototype, or
\* undefined when there is none.  Either way the stack grows by that one
\* view and current becomes it.
C11_UnknownKeyPushed ==
    \A i \in 1..NOps : IsOp(i, "set") =>
        LET k == opLog[i].key
            v == [component |-> IF k \in Keys THEN componentMap[k]
                                ELSE IF k = "toString" THEN "Object.prototype.toString"
                                ELSE IF k = "constructor" THEN "Object"
                                ELSE IF k = "__defineGetter__"
                                     THEN "Object.prototype.__defineGetter__"
                                ELSE IF k = "__proto__" THEN "Object.prototype"
                                ELSE Undefined,
                  key |-> k,
                  props |-> opLog[i].props]
        IN /\ stackLog[i + 1] = Append(stackLog[i], v)
           /\ curLog[i + 1] = v

\* C11 witness: set("toString", {x: "y"}) has pushed a view with the
\* inherited function as component, and set("Z", {x: "y"}) one without
\* component on top of it.
C11_Witness ==
    /\ NOps >= 2
    /\ opLog[NOps - 1] = Op("set", "toString", [x |-> Str("y")], 0)
    /\ opLog[NOps] = Op("set", "Z", [x |-> Str("y")], 0)
    /\ Len(stack) = Len(stackLog[NOps - 1]) + 2
    /\ stack[Len(stack) - 1] = [component |-> "Object.prototype.toString",
                                key |-> "toString", props |-> [x |-> Str("y")]]
    /\ NavCurrent = [component |-> Undefined, key |-> "Z", props |-> [x |-> Str("y")]]

\* C12: when a callback, while being notified by a set or back call, calls
\* set or back itself, every registered subscription is invoked with the
\* value of the inner call within the outer call, after the invocation that
\* made the inner call; and when the outer call has returned, current is
\* the top of the stack and the stack is not empty.
C12_Reentrancy ==
    (NOps >= 2 /\ LastOp.id > 0 /\ LastOp.op \in {"set", "back"}) =>
        LET v == curLog[NOps]
            w == curLog[NOps + 1]
            inner == IsOp(NOps, "set") \/ Len(stackLog[NOps]) > 1
        IN /\ inner =>
                \A i \in 1..Len(subscribers) :
                    \E m, n \in 1..Len(notified) :
                        /\ m < n
                        /\ notified[m] = <<LastOp.id, v>>
                        /\ notified[n] = <<subscribers[i], w>>
           /\ NavCurrent = Top(stack)
           /\ Len(stack) >= 1
           /\ stack = stackLog[NOps + 1]

\* C12 witness: two subscriptions; during set the first one's callback calls
\* set again, and both were invoked with the inner view before the outer
\* call returned.
C12_Witness ==
    /\ NOps >= 4
    /\ Len(subscribers) = 2
    /\ IsOp(NOps - 1, "set") /\ IsOp(NOps, "set")
    /\ LastOp.id = subscribers[1]
    /\ curLog[NOps] # curLog[NOps + 1]
    /\ Len(notified) = 4
    /\ notified[1] = <<subscribers[1], curLog[NOps]>>
    /\ \E n \in 2..4 : notified[n] = <<subscribers[2], curLog[NOps + 1]>>
    /\ NavCurrent = curLog[NOps + 1]

\* C16: a call on the second Navigation (create, set, back, subscribe,
\* unsubscribe) leaves the first one's stack, current and subscribers as
\* they were and invokes none of its callbacks; a call on the first leaves
\* the second one's stack, current and subscribers as they were and invokes
\* none of its callbacks.
C16_Isolation ==
    [][ /\ (other'.calls # other.calls \/ other'.created # other.created)
           => /\ stack' = stack
              /\ current' = current
              /\ subscribers' = subscribers
              /\ lastSeen' = lastSeen
        /\ opLog' # opLog
           => /\ other'.stack = other.stack
              /\ other'.current = other.current
              /\ other'.subscribers = other.subscribers
              /\ other'.seen = other.seen ]_vars

\* C16 witness: two instances created with the same initial key, each with
\* a subscription, each moved to a view of its own by its own set.
C16_Witness ==
    /\ other.created
    /\ other.stack[1] = stack[1]
    /\ Len(stack) = 2 /\ Len(other.stack) = 2
    /\ NavCurrent # other.current
    /\ Len(subscribers) = 1 /\ Len(other.subscribers) = 1
    /\ lastSeen[subscribers[1]] = NavCurrent
    /\ other.seen[other.subscribers[1]] = other.current

====
